---- MODULE Spec2Model ----
(***************************************************************************)
(* Model of the quad batch (src/src/renderer.rs), the gravity collision    *)
(* resolver (src/src/physics.rs) and the per-frame update of the scene     *)
(* (src/src/lib.rs).                                                       *)
(*                                                                         *)
(* f32 coordinates are modelled as integers: every value the model uses is *)
(* a small whole number, which f32 represents and adds exactly.  Vectors   *)
(* are 0-based in the source and 1-based here: At(s, i) reads s[i].        *)
(***************************************************************************)
EXTENDS Integers, Sequences, FiniteSets, TLC

VARIABLES renderer, panicked, created, call, player, block, probe, outcome

vars == <<renderer, panicked, created, call, player, block, probe, outcome>>

(***************************************************************************)
(* Bounds of the model.                                                    *)
(***************************************************************************)
\* number of create calls one run of the batch specification makes
MaxQuads == 2
\* coordinates of the batch specification stay within 0..MaxCoord
MaxCoord == 5
\* the scene's player stays within MinX..MaxX, and falls no lower than MinY
MinX == 140
MaxX == 160
MinY == 170
\* the resolver is probed at player positions within 0..MaxProbe on each axis
MaxProbe == 9
\* a landing run starts at most LandHeight above the block's top edge
LandHeight == 10

(***************************************************************************)
(* Program constants.                                                      *)
(***************************************************************************)
U16_MAX == 65535
QUAD_SIZE == 50
SPEED == 5
GRAVITY == 3

point2(x, y) == [x |-> x, y |-> y]

At(s, i) == s[i + 1]

GREEN == <<0, 1, 0>>
WHITE == <<1, 1, 1>>

NoSlot == 0 - 1
Idle == [op |-> "new", slot |-> NoSlot]

(***************************************************************************)
(* renderer.rs                                                             *)
(***************************************************************************)
QuadInfo_new(pos, color) == [pos |-> pos, color |-> color]

Vertex_new(position, color) == [position |-> position, color |-> color]

\* Renderer::new: an empty batch of the given cell size
Renderer_new(size) ==
    [quads |-> <<>>, quad_size |-> size, vertices |-> <<>>, indices |-> <<>>,
     current_quad_index |-> 0]

\* variant: the conversion written as a cast (v as u16), which wraps
try_into_u16_wrapping(v) == [ok |-> TRUE, val |-> v % (U16_MAX + 1)]

\* usize -> u16 by try_into(): Ok(v) when v fits in 16 bits, Err otherwise
try_into_u16(v) ==
    IF v >= 0 /\ v <= U16_MAX THEN [ok |-> TRUE, val |-> v]
    ELSE [ok |-> FALSE, val |-> 0]

\* indices.push(v.try_into().unwrap()) for each v of vals in turn; the first
\* unwrap of an Err panics and nothing further is pushed
RECURSIVE push_indices(_, _)
push_indices(st, vals) ==
    IF vals = <<>> \/ st.panicked THEN st
    ELSE LET r == try_into_u16(Head(vals)) IN
         IF r.ok
         THEN push_indices([st EXCEPT !.indices = Append(@, r.val)], Tail(vals))
         ELSE [st EXCEPT !.panicked = TRUE]

\* the six indices of the quad in slot index, in push order
quad_indices(index) ==
    <<index * 4, index * 4 + 1, index * 4 + 2,
      index * 4 + 2, index * 4 + 1, index * 4 + 3>>

\* the four corners pushed for a rectangle of extent (w, h) at position
corners(position, w, h, color) ==
    <<Vertex_new(position, color),
      Vertex_new(point2(position.x + w, position.y), color),
      Vertex_new(point2(position.x, position.y + h), color),
      Vertex_new(point2(position.x + w, position.y + h), color)>>

\* variant: current_quad_index is not advanced
push_quad_no_increment(r, position, w, h, color) ==
    LET index == r.current_quad_index
        r1 == [r EXCEPT !.quads = Append(@, QuadInfo_new(position, color)),
                        !.vertices = @ \o corners(position, w, h, color)]
        st == push_indices([indices |-> r1.indices, panicked |-> FALSE],
                           quad_indices(index))
    IN [renderer |-> [r1 EXCEPT !.indices = st.indices],
        panicked |-> st.panicked,
        ret |-> index]

\* the body shared by create_quad and create_block, with the extent pushed
push_quad(r, position, w, h, color) ==
    LET index == r.current_quad_index
        r1 == [r EXCEPT !.quads = Append(@, QuadInfo_new(position, color)),
                        !.current_quad_index = @ + 1,
                        !.vertices = @ \o corners(position, w, h, color)]
        st == push_indices([indices |-> r1.indices, panicked |-> FALSE],
                           quad_indices(index))
    IN [renderer |-> [r1 EXCEPT !.indices = st.indices],
        panicked |-> st.panicked,
        ret |-> index]

create_quad(r, position, color) ==
    push_quad(r, position, r.quad_size, r.quad_size, color)

create_block(r, position, length, color) ==
    push_quad(r, position, r.quad_size * length.x, r.quad_size * length.y, color)

\* variant: the last corner is written once more, one place further on
set_vertices_one_too_many(vertices, index, vs) ==
    [i \in 1..Len(vertices) |->
        IF i > 4 * index /\ i <= 4 * index + 4 THEN vs[i - 4 * index]
        ELSE IF i = 4 * index + 5 THEN vs[4]
        ELSE vertices[i]]

\* vertices[4 * index + k] = vs[k] for k = 0..3, in place
set_vertices(vertices, index, vs) ==
    [vertices EXCEPT ![4 * index + 1] = vs[1],
                     ![4 * index + 2] = vs[2],
                     ![4 * index + 3] = vs[3],
                     ![4 * index + 4] = vs[4]]

\* variant: the stored position is not written back
update_quad_data_stale_pos(r, index, delta_position) ==
    LET prev_pos == At(r.quads, index).pos
        new_quad_pos == point2(prev_pos.x + delta_position.x,
                               prev_pos.y + delta_position.y)
        color == At(r.quads, index).color
    IN [r EXCEPT
          !.vertices = set_vertices(@, index,
              corners(new_quad_pos, r.quad_size, r.quad_size, color))]

update_quad_data(r, index, delta_position) ==
    LET prev_pos == At(r.quads, index).pos
        new_quad_pos == point2(prev_pos.x + delta_position.x,
                               prev_pos.y + delta_position.y)
        color == At(r.quads, index).color
    IN [r EXCEPT
          !.vertices = set_vertices(@, index,
              corners(new_quad_pos, r.quad_size, r.quad_size, color)),
          !.quads[index + 1].pos = new_quad_pos]

change_quad_data(r, index, new_position) ==
    LET color == At(r.quads, index).color
    IN [r EXCEPT
          !.vertices = set_vertices(@, index,
              corners(new_position, r.quad_size, r.quad_size, color)),
          !.quads[index + 1].pos = new_position]

\* variant: the index count taken per vertex instead of per index
collect_buffers_per_vertex(r) ==
    [vertex_buffer |-> r.vertices,
     index_buffer |-> r.indices,
     num_of_indices |-> 4 * r.current_quad_index]

\* Buffers of collect_buffers: the contents uploaded and num_of_indices
\* (its conversion to u32 cannot fail before the u16 conversions of the
\* create calls do)
collect_buffers(r) ==
    [vertex_buffer |-> r.vertices,
     index_buffer |-> r.indices,
     num_of_indices |-> 6 * r.current_quad_index]

(***************************************************************************)
(* physics.rs                                                              *)
(***************************************************************************)
None == [some |-> FALSE, pos |-> point2(0, 0)]
Some(p) == [some |-> TRUE, pos |-> p]

\* variant: the resting height taken from the block's length along x
check_wrong_axis(player_pos, block_pos, quad_size, block_length) ==
    IF /\ player_pos.x + quad_size >= block_pos.x
       /\ player_pos.x < block_pos.x + (quad_size * block_length.x)
       /\ player_pos.y + quad_size > block_pos.y
       /\ player_pos.y <= block_pos.y + (quad_size * block_length.y)
    THEN Some(point2(player_pos.x, block_pos.y + (quad_size * block_length.x)))
    ELSE None

\* variant: the player's height left out of the vertical test
check_ignoring_height(player_pos, block_pos, quad_size, block_length) ==
    IF /\ player_pos.x + quad_size >= block_pos.x
       /\ player_pos.x < block_pos.x + (quad_size * block_length.x)
       /\ player_pos.y > block_pos.y
       /\ player_pos.y <= block_pos.y + (quad_size * block_length.y)
    THEN Some(point2(player_pos.x, block_pos.y + (quad_size * block_length.y)))
    ELSE None

\* variant: the player's width left out of the horizontal test
check_ignoring_width(player_pos, block_pos, quad_size, block_length) ==
    IF /\ player_pos.x >= block_pos.x
       /\ player_pos.x < block_pos.x + (quad_size * block_length.x)
       /\ player_pos.y + quad_size > block_pos.y
       /\ player_pos.y <= block_pos.y + (quad_size * block_length.y)
    THEN Some(point2(player_pos.x, block_pos.y + (quad_size * block_length.y)))
    ELSE None

\* variant: the proposed position returned uncorrected
check_returns_proposed(player_pos, block_pos, quad_size, block_length) ==
    IF /\ player_pos.x + quad_size >= block_pos.x
       /\ player_pos.x < block_pos.x + (quad_size * block_length.x)
       /\ player_pos.y + quad_size > block_pos.y
       /\ player_pos.y <= block_pos.y + (quad_size * block_length.y)
    THEN Some(player_pos)
    ELSE None

check_player_gravity_collission(player_pos, block_pos, quad_size, block_length) ==
    IF /\ player_pos.x + quad_size >= block_pos.x
       /\ player_pos.x < block_pos.x + (quad_size * block_length.x)
       /\ player_pos.y + quad_size > block_pos.y
       /\ player_pos.y <= block_pos.y + (quad_size * block_length.y)
    THEN Some(point2(player_pos.x, block_pos.y + (quad_size * block_length.y)))
    ELSE None

(***************************************************************************)
(* The batch driven through its public operations.  A call on a slot that  *)
(* was never returned by a create call is outside the contract (it panics  *)
(* on the vector index), so the moves take live slots only.  After a panic *)
(* the thread unwinds and no further call is made.                         *)
(***************************************************************************)
Colors == {GREEN, WHITE}
Positions == {point2(0, 3), point2(5, 0)}
Lengths == {point2(6, 1)}
Deltas == {point2(SPEED, 0), point2(0 - SPEED, 0), point2(0, 0 - GRAVITY)}

InRange(p) == p.x >= 0 /\ p.x <= MaxCoord /\ p.y >= 0 /\ p.y <= MaxCoord

\* the live slots from first on: the slots a specification moves
Movable(first) == first..(Len(renderer.quads) - 1)

Entry(kind, length, color, out) ==
    [kind |-> kind, length |-> length, color |-> color,
     ret |-> IF out.panicked THEN NoSlot ELSE out.ret]

Returned(op, out) ==
    [op |-> op, slot |-> IF out.panicked THEN NoSlot ELSE out.ret]

SceneIdle == UNCHANGED <<player, block, probe, outcome>>

CreateQuad(limit) ==
    /\ ~panicked
    /\ Len(created) < limit
    /\ \E position \in Positions, color \in Colors :
         LET out == create_quad(renderer, position, color) IN
         /\ renderer' = out.renderer
         /\ panicked' = out.panicked
         /\ created' = Append(created, Entry("quad", point2(1, 1), color, out))
         /\ call' = Returned("create_quad", out)
    /\ SceneIdle

CreateBlock(limit) ==
    /\ ~panicked
    /\ Len(created) < limit
    /\ \E position \in Positions, length \in Lengths, color \in Colors :
         LET out == create_block(renderer, position, length, color) IN
         /\ renderer' = out.renderer
         /\ panicked' = out.panicked
         /\ created' = Append(created, Entry("block", length, color, out))
         /\ call' = Returned("create_block", out)
    /\ SceneIdle

UpdateQuadData(first) ==
    /\ ~panicked
    /\ \E index \in Movable(first), delta \in Deltas :
         /\ InRange(update_quad_data(renderer, index, delta).quads[index + 1].pos)
         /\ renderer' = update_quad_data(renderer, index, delta)
         /\ call' = [op |-> "update_quad_data", slot |-> index]
    /\ UNCHANGED <<panicked, created>>
    /\ SceneIdle

ChangeQuadData(first) ==
    /\ ~panicked
    /\ \E index \in Movable(first), new_position \in Positions :
         /\ renderer' = change_quad_data(renderer, index, new_position)
         /\ call' = [op |-> "change_quad_data", slot |-> index]
    /\ UNCHANGED <<panicked, created>>
    /\ SceneIdle

NoPlayer ==
    [index |-> 0, pos |-> point2(0, 0), speed |-> SPEED,
     is_left_pressed |-> FALSE, is_right_pressed |-> FALSE, gravity |-> GRAVITY]
NoBlock == [index |-> 0, pos |-> point2(0, 0)]
NoProbe ==
    [player_pos |-> point2(0, 0), block_pos |-> point2(0, 0),
     quad_size |-> 0, block_length |-> point2(0, 0)]

Init ==
    /\ renderer = Renderer_new(QUAD_SIZE)
    /\ panicked = FALSE
    /\ created = <<>>
    /\ call = Idle
    /\ player = NoPlayer
    /\ block = NoBlock
    /\ probe = NoProbe
    /\ outcome = None

Next ==
    \/ CreateQuad(MaxQuads)
    \/ CreateBlock(MaxQuads)
    \/ UpdateQuadData(0)
    \/ ChangeQuadData(0)

Spec == Init /\ [][Next]_vars

(***************************************************************************)
(* lib.rs: the scene.  State::new builds the batch with the player's quad  *)
(* and one block; the player starts at the centre of the window, whose     *)
(* size the host decides.  Each redraw runs State::update and then         *)
(* State::render, which only reads the batch (collect_buffers).            *)
(***************************************************************************)
BLOCK_POS == point2(200, 230)
BLOCK_LENGTH == point2(6, 1)

StartPositions == {point2(145, 290), point2(147, 260), point2(152, 251)}

State_new(player_pos) ==
    LET q == create_quad(Renderer_new(QUAD_SIZE), player_pos, GREEN)
        b == create_block(q.renderer, BLOCK_POS, BLOCK_LENGTH, WHITE)
    IN [renderer |-> b.renderer,
        panicked |-> q.panicked \/ b.panicked,
        created |-> <<Entry("quad", point2(1, 1), GREEN, q),
                      Entry("block", BLOCK_LENGTH, WHITE, b)>>,
        player |-> [index |-> q.ret, pos |-> player_pos, speed |-> SPEED,
                    is_left_pressed |-> FALSE, is_right_pressed |-> FALSE,
                    gravity |-> GRAVITY],
        block |-> [index |-> b.ret, pos |-> BLOCK_POS]]

\* State::input for a keyboard event of key A or D
input(p, keycode, is_pressed) ==
    IF keycode = "A" THEN [p EXCEPT !.is_left_pressed = is_pressed]
    ELSE IF keycode = "D" THEN [p EXCEPT !.is_right_pressed = is_pressed]
    ELSE p

\* variant: the resolver's answer is dropped and the player always falls
update_always_falls(r, p, b) ==
    LET r1 == IF p.is_right_pressed
              THEN update_quad_data(r, p.index, point2(p.speed, 0)) ELSE r
        p1 == IF p.is_right_pressed
              THEN [p EXCEPT !.pos = point2(p.pos.x + p.speed, p.pos.y)] ELSE p
        r2 == IF p1.is_left_pressed
              THEN update_quad_data(r1, p1.index, point2(0 - p1.speed, 0)) ELSE r1
        p2 == IF p1.is_left_pressed
              THEN [p1 EXCEPT !.pos = point2(p1.pos.x - p1.speed, p1.pos.y)] ELSE p1
        player_pos_after_gravity == point2(p2.pos.x, p2.pos.y - p2.gravity)
        answer == check_player_gravity_collission(
                      player_pos_after_gravity, b.pos, QUAD_SIZE, BLOCK_LENGTH)
    IN [renderer |-> update_quad_data(r2, p2.index, point2(0, 0 - p2.gravity)),
        player |-> [p2 EXCEPT !.pos = player_pos_after_gravity],
        probe |-> [player_pos |-> player_pos_after_gravity, block_pos |-> b.pos,
                   quad_size |-> QUAD_SIZE, block_length |-> BLOCK_LENGTH],
        outcome |-> answer]

\* variant: on a collision the player is corrected but the batch is not
update_keeps_batch_on_rest(r, p, b) ==
    LET r1 == IF p.is_right_pressed
              THEN update_quad_data(r, p.index, point2(p.speed, 0)) ELSE r
        p1 == IF p.is_right_pressed
              THEN [p EXCEPT !.pos = point2(p.pos.x + p.speed, p.pos.y)] ELSE p
        r2 == IF p1.is_left_pressed
              THEN update_quad_data(r1, p1.index, point2(0 - p1.speed, 0)) ELSE r1
        p2 == IF p1.is_left_pressed
              THEN [p1 EXCEPT !.pos = point2(p1.pos.x - p1.speed, p1.pos.y)] ELSE p1
        player_pos_after_gravity == point2(p2.pos.x, p2.pos.y - p2.gravity)
        answer == check_player_gravity_collission(
                      player_pos_after_gravity, b.pos, QUAD_SIZE, BLOCK_LENGTH)
    IN [renderer |-> IF answer.some
                     THEN r2
                     ELSE update_quad_data(r2, p2.index, point2(0, 0 - p2.gravity)),
        player |-> [p2 EXCEPT !.pos = IF answer.some THEN answer.pos
                                      ELSE player_pos_after_gravity],
        probe |-> [player_pos |-> player_pos_after_gravity, block_pos |-> b.pos,
                   quad_size |-> QUAD_SIZE, block_length |-> BLOCK_LENGTH],
        outcome |-> answer]

\* State::update: the batch and the player after one tick, with the
\* resolver's arguments and its answer.  The call in lib.rs names no
\* block_length; the length the block was created with is the one passed.
update(r, p, b) ==
    LET r1 == IF p.is_right_pressed
              THEN update_quad_data(r, p.index, point2(p.speed, 0)) ELSE r
        p1 == IF p.is_right_pressed
              THEN [p EXCEPT !.pos = point2(p.pos.x + p.speed, p.pos.y)] ELSE p
        r2 == IF p1.is_left_pressed
              THEN update_quad_data(r1, p1.index, point2(0 - p1.speed, 0)) ELSE r1
        p2 == IF p1.is_left_pressed
              THEN [p1 EXCEPT !.pos = point2(p1.pos.x - p1.speed, p1.pos.y)] ELSE p1
        player_pos_after_gravity == point2(p2.pos.x, p2.pos.y - p2.gravity)
        answer == check_player_gravity_collission(
                      player_pos_after_gravity, b.pos, QUAD_SIZE, BLOCK_LENGTH)
    IN [renderer |-> IF answer.some
                     THEN change_quad_data(r2, p2.index, answer.pos)
                     ELSE update_quad_data(r2, p2.index, point2(0, 0 - p2.gravity)),
        player |-> [p2 EXCEPT !.pos = IF answer.some THEN answer.pos
                                      ELSE player_pos_after_gravity],
        probe |-> [player_pos |-> player_pos_after_gravity, block_pos |-> b.pos,
                   quad_size |-> QUAD_SIZE, block_length |-> BLOCK_LENGTH],
        outcome |-> answer]

InScene(p) == p.x >= MinX /\ p.x <= MaxX /\ p.y >= MinY

Input ==
    /\ \E keycode \in {"A", "D"}, is_pressed \in BOOLEAN :
         player' = input(player, keycode, is_pressed)
    /\ call' = [op |-> "input", slot |-> NoSlot]
    /\ UNCHANGED <<renderer, panicked, created, block, probe, outcome>>

Update ==
    LET out == update(renderer, player, block) IN
    /\ InScene(out.player.pos)
    /\ renderer' = out.renderer
    /\ player' = out.player
    /\ probe' = out.probe
    /\ outcome' = out.outcome
    /\ call' = [op |-> "update", slot |-> player.index]
    /\ UNCHANGED <<panicked, created, block>>

InitGame ==
    \E player_pos \in StartPositions :
      LET s == State_new(player_pos) IN
      /\ renderer = s.renderer
      /\ panicked = s.panicked
      /\ created = s.created
      /\ player = s.player
      /\ block = s.block
      /\ call = Idle
      /\ probe = NoProbe
      /\ outcome = None

NextGame == Input \/ Update

SpecGame == InitGame /\ [][NextGame]_vars

(***************************************************************************)
(* Landing runs: no key is ever pressed, the player starts at or above the *)
(* block's top edge at an x the resolver's horizontal test accepts, and    *)
(* Player.gravity is one of several steps up to cell size + block height.  *)
(* The event loop asks for a redraw after every batch of events            *)
(* (MainEventsCleared), so the tick keeps running: weak fairness of Update.*)
(***************************************************************************)
BLOCK_TOP == BLOCK_POS.y + QUAD_SIZE * BLOCK_LENGTH.y

\* the largest step of the landing runs: cell size + block height
STEP_LIMIT == QUAD_SIZE + QUAD_SIZE * BLOCK_LENGTH.y

LandGravities == {1, GRAVITY, STEP_LIMIT - 1, STEP_LIMIT}

LandPositions ==
    {point2(x, y) : x \in {v \in MinX..MaxX :
                              /\ v + QUAD_SIZE >= BLOCK_POS.x
                              /\ v < BLOCK_POS.x + QUAD_SIZE * BLOCK_LENGTH.x},
                    y \in BLOCK_TOP..(BLOCK_TOP + LandHeight)}

InitLand ==
    \E player_pos \in LandPositions, step \in LandGravities :
      LET s == State_new(player_pos) IN
      /\ renderer = s.renderer
      /\ panicked = s.panicked
      /\ created = s.created
      /\ player = [s.player EXCEPT !.gravity = step]
      /\ block = s.block
      /\ call = Idle
      /\ probe = NoProbe
      /\ outcome = None

NextLand == Update

SpecLand == InitLand /\ [][NextLand]_vars /\ WF_vars(Update)

(***************************************************************************)
(* The resolver on its own: one call on arguments drawn from a grid round  *)
(* a block of each length.                                                 *)
(***************************************************************************)
ProbeLengths == {point2(1, 1), point2(2, 1), point2(1, 2)}

Probes ==
    {[player_pos |-> point2(x, y), block_pos |-> point2(3, 4),
      quad_size |-> 2, block_length |-> l] :
        x \in 0..MaxProbe, y \in 0..MaxProbe, l \in ProbeLengths}

Resolver(q) ==
    check_player_gravity_collission(q.player_pos, q.block_pos, q.quad_size,
                                    q.block_length)

BatchIdle == UNCHANGED <<renderer, panicked, created, player, block>>

Resolve ==
    /\ call.op = "new"
    /\ outcome' = Resolver(probe)
    /\ call' = [op |-> "resolve", slot |-> NoSlot]
    /\ UNCHANGED probe
    /\ BatchIdle

InitResolve ==
    /\ probe \in Probes
    /\ outcome = None
    /\ call = Idle
    /\ renderer = Renderer_new(QUAD_SIZE)
    /\ panicked = FALSE
    /\ created = <<>>
    /\ player = NoPlayer
    /\ block = NoBlock

NextResolve == Resolve

SpecResolve == InitResolve /\ [][NextResolve]_vars

(***************************************************************************)
(* The batch near the end of the 16-bit index range.  The run starts from  *)
(* the batch that SlotCapacity - 1 calls of create_quad leave (all at one  *)
(* position), so that one more create fills the last slot whose indices    *)
(* fit in a u16 and the one after that does not fit.  Only the slots       *)
(* created during the run are moved.                                       *)
(***************************************************************************)
\* the number of slots whose four vertex numbers all fit in a u16
SlotCapacity == (U16_MAX + 1) \div 4

\* the batch after n calls create_quad(position, color) on Renderer::new(size)
Filled(size, n, position, color) ==
    [quads |-> <<>> \o [i \in 1..n |-> QuadInfo_new(position, color)],
     quad_size |-> size,
     vertices |-> <<>> \o [i \in 1..(4 * n) |->
                     corners(position, size, size, color)[((i - 1) % 4) + 1]],
     indices |-> <<>> \o [i \in 1..(6 * n) |->
                     quad_indices((i - 1) \div 6)[((i - 1) % 6) + 1]],
     current_quad_index |-> n]

InitCap ==
    /\ renderer = Filled(QUAD_SIZE, SlotCapacity - 1, point2(0, 3), GREEN)
    /\ panicked = FALSE
    /\ created = <<>> \o [i \in 1..(SlotCapacity - 1) |->
                    [kind |-> "quad", length |-> point2(1, 1), color |-> GREEN,
                     ret |-> i - 1]]
    /\ call = Idle
    /\ player = NoPlayer
    /\ block = NoBlock
    /\ probe = NoProbe
    /\ outcome = None

NextCap ==
    \/ CreateQuad(SlotCapacity + 1)
    \/ CreateBlock(SlotCapacity + 1)
    \/ UpdateQuadData(SlotCapacity - 1)
    \/ ChangeQuadData(SlotCapacity - 1)

SpecCap == InitCap /\ [][NextCap]_vars

(***************************************************************************)
(* Properties.                                                             *)
(***************************************************************************)
\* the slots handed out: those a create call returned
ReturnedSlots == {created[k].ret : k \in 1..Len(created)} \ {NoSlot}

VertexPositions(i) ==
    [k \in 1..4 |-> At(renderer.vertices, 4 * i + k - 1).position]

VertexColors(i) ==
    [k \in 1..4 |-> At(renderer.vertices, 4 * i + k - 1).color]

SlotIndices(i) == [k \in 1..6 |-> At(renderer.indices, 6 * i + k - 1)]

\* the rectangle [x, x + w] x [y, y + h] in the fixed corner order
Rectangle(pos, w, h) ==
    <<point2(pos.x, pos.y), point2(pos.x + w, pos.y),
      point2(pos.x, pos.y + h), point2(pos.x + w, pos.y + h)>>

\* C1: every live slot's four vertices are the corners of the rectangle at
\* the slot's stored position with the entity's own extent (cell_size x
\* cell_size for a quad, cell_size * length per axis for a block), also after
\* translate or set_position has been applied to a block.
C1_VerticesSpanOwnExtent ==
    \A i \in ReturnedSlots :
        VertexPositions(i) =
            Rectangle(At(renderer.quads, i).pos,
                      renderer.quad_size * created[i + 1].length.x,
                      renderer.quad_size * created[i + 1].length.y)

\* C2: after every call that returns, the batch holds 4 vertices, 6 indices
\* and one quad record per create call made, and collect_buffers reports 6
\* indices per create call.
C2_BatchLengths ==
    ~panicked =>
        /\ Len(renderer.vertices) = 4 * Len(created)
        /\ Len(renderer.indices) = 6 * Len(created)
        /\ Len(renderer.quads) = Len(created)
        /\ collect_buffers(renderer).num_of_indices = 6 * Len(created)

C2_Witness ==
    /\ Len(created) = MaxQuads
    /\ call.op \in {"update_quad_data", "change_quad_data"}
    /\ collect_buffers(renderer).num_of_indices = 6 * MaxQuads

StrictOverlapX(q) ==
    /\ q.player_pos.x + q.quad_size > q.block_pos.x
    /\ q.player_pos.x < q.block_pos.x + q.quad_size * q.block_length.x

BlockTop(q) == q.block_pos.y + q.quad_size * q.block_length.y

\* C3: the resolver returns a collision if and only if px + pw > ox,
\* px < ox + ow, py + ph > oy and py <= oy + oh; a player whose right edge
\* only touches the block's left edge gets None.
C3_CollisionIffStrictOverlap ==
    call.op = "resolve" =>
        (outcome.some <=>
            /\ StrictOverlapX(probe)
            /\ probe.player_pos.y + probe.quad_size > probe.block_pos.y
            /\ probe.player_pos.y <= BlockTop(probe))

\* C4 as stated: on a collision the corrected position is (px, oy - ph).
C4_RestsAtOriginMinusHeight ==
    (call.op = "resolve" /\ outcome.some) =>
        outcome.pos = point2(probe.player_pos.x,
                             probe.block_pos.y - probe.quad_size)

\* C4 as amended: on a collision the corrected position is (px, oy + oh):
\* x is the proposed x unchanged and y is the obstacle's y origin plus the
\* obstacle's height, its top edge.
C4_RestsOnTopEdge ==
    (call.op = "resolve" /\ outcome.some) =>
        outcome.pos = point2(probe.player_pos.x,
                             probe.block_pos.y
                               + probe.quad_size * probe.block_length.y)

C4_Witness ==
    /\ call.op = "resolve"
    /\ outcome.some
    /\ probe.block_length = point2(1, 2)
    /\ probe.player_pos.y < BlockTop(probe)

\* C5 as stated: in a tick, for a player whose horizontal range overlaps the
\* block's, the resolver answers Some((player.x, block_top)) exactly when
\* player.y - g <= block_top <= player.y (probe.player_pos is the proposed
\* position, player.y - g).
C5_OnlyFromAbove ==
    (call.op = "update" /\ StrictOverlapX(probe)) =>
        (outcome = Some(point2(probe.player_pos.x, BlockTop(probe))) <=>
            /\ probe.player_pos.y <= BlockTop(probe)
            /\ BlockTop(probe) <= probe.player_pos.y + GRAVITY)

\* C5 as amended: in a tick, for a player whose horizontal range overlaps the
\* block's, the resolver answers Some((player.x, block_top)) exactly when
\* player.y - g <= block_top and player.y - g + cell_size > block.y; a player
\* already below block_top that still reaches above the block's origin is
\* reported as colliding and is moved up to block_top.
C5_WhileReachingAboveOrigin ==
    (call.op = "update" /\ StrictOverlapX(probe)) =>
        /\ outcome = Some(point2(probe.player_pos.x, BlockTop(probe))) <=>
             /\ probe.player_pos.y <= BlockTop(probe)
             /\ probe.player_pos.y + probe.quad_size > probe.block_pos.y
        /\ outcome.some => player.pos = outcome.pos
        /\ ~outcome.some => outcome = None /\ player.pos = probe.player_pos

C5_Witness ==
    /\ call.op = "update"
    /\ StrictOverlapX(probe)
    /\ outcome.some
    /\ probe.player_pos.y + GRAVITY < BlockTop(probe)
    /\ player.pos.y = BlockTop(probe)

AtRest == outcome.some /\ player.pos = outcome.pos

\* C6: once the player is at a resting position r the resolver returned, a
\* tick with no horizontal input proposes (r.x, r.y - gravity), gets Some(r)
\* again and leaves the player exactly at r.
C6_RestIsIdempotent ==
    [][(/\ AtRest
        /\ ~player.is_left_pressed
        /\ ~player.is_right_pressed
        /\ call'.op = "update")
       => /\ probe'.player_pos = point2(player.pos.x, player.pos.y - GRAVITY)
          /\ outcome' = Some(player.pos)
          /\ player'.pos = player.pos
          /\ At(renderer'.quads, player.index).pos = player.pos]_vars

C6_Witness ==
    /\ call.op = "update"
    /\ AtRest
    /\ probe.player_pos = point2(player.pos.x, player.pos.y - GRAVITY)
    /\ ~player.is_left_pressed
    /\ ~player.is_right_pressed

\* C7: in every batch state, for every live slot s and delta d,
\* update_quad_data(s, d) and change_quad_data(s, old_position(s) + d) leave
\* identical batches.
C7_TranslateEqualsSet ==
    \A s \in ReturnedSlots : \A d \in Deltas :
        update_quad_data(renderer, s, d) =
            change_quad_data(renderer, s,
                point2(At(renderer.quads, s).pos.x + d.x,
                       At(renderer.quads, s).pos.y + d.y))

C7_Witness ==
    /\ call.op = "update_quad_data"
    /\ created[call.slot + 1].kind = "block"
    /\ Len(created) = MaxQuads

\* C8: the k-th create call returns slot k, and no later call changes the
\* colour, the index sextet or the vertex range of a slot already returned:
\* the range [4k, 4k + 4) keeps holding the rectangle anchored at slot k's
\* stored position.
C8_SlotStability ==
    /\ [](\A k \in 1..Len(created) : ~panicked => created[k].ret = k - 1)
    /\ [](\A k \in ReturnedSlots :
            /\ At(renderer.quads, k).color = created[k + 1].color
            /\ VertexColors(k) = [j \in 1..4 |-> created[k + 1].color]
            /\ VertexPositions(k)[1] = At(renderer.quads, k).pos)
    /\ [][\A k \in ReturnedSlots :
            /\ k \in ReturnedSlots'
            /\ At(renderer'.quads, k).color = At(renderer.quads, k).color
            /\ VertexColors(k)' = VertexColors(k)
            /\ SlotIndices(k)' = SlotIndices(k)]_vars

C8_Witness ==
    /\ Len(created) = MaxQuads
    /\ call.op = "create_block"
    /\ call.slot = MaxQuads - 1
    /\ created[1].color # created[MaxQuads].color

\* C9: for every live slot i the six indices at [6i, 6i + 6) are 4i, 4i + 1,
\* 4i + 2, 4i + 2, 4i + 1, 4i + 3, each fits in 16 bits and each is less than
\* vertices.len().
C9_IndexSextets ==
    \A i \in ReturnedSlots :
        /\ SlotIndices(i) =
             <<4 * i, 4 * i + 1, 4 * i + 2, 4 * i + 2, 4 * i + 1, 4 * i + 3>>
        /\ \A k \in 1..6 :
             /\ SlotIndices(i)[k] >= 0
             /\ SlotIndices(i)[k] <= U16_MAX
             /\ SlotIndices(i)[k] < Len(renderer.vertices)

C9_Witness ==
    /\ call.op \in {"update_quad_data", "change_quad_data"}
    /\ (SlotCapacity - 1) \in ReturnedSlots
    /\ SlotIndices(SlotCapacity - 1)[6] = U16_MAX

\* C10: create_quad and create_block never fail: whatever the number of quads
\* created before, the call completes, returns the next slot and leaves the
\* batch with 4 more vertices and 6 more indices.
C10_CreateNeverFails ==
    call.op \in {"create_quad", "create_block"} =>
        /\ ~panicked
        /\ call.slot = Len(created) - 1
        /\ Len(renderer.vertices) = 4 * Len(created)
        /\ Len(renderer.indices) = 6 * Len(created)

\* the batch's stored position of the player's slot
BatchPlayerPos == At(renderer.quads, player.index).pos

\* the player's x after the horizontal moves of a tick
XAfterKeys ==
    player.pos.x + (IF player.is_right_pressed THEN player.speed ELSE 0)
                 - (IF player.is_left_pressed THEN player.speed ELSE 0)

\* C11: a tick proposes (x after the horizontal moves, y - gravity); if the
\* resolver returns a corrected position, the player and the batch's stored
\* position of the player's slot both become it, otherwise both become the
\* proposed position; so the two agree at the end of every tick, whatever
\* keys were pressed or released in between.
C11_TickAppliesOneOutcome ==
    /\ [](call.op = "update" =>
            /\ outcome = Resolver(probe)
            /\ outcome.some =>
                 player.pos = outcome.pos /\ BatchPlayerPos = outcome.pos
            /\ ~outcome.some =>
                 player.pos = probe.player_pos /\ BatchPlayerPos = probe.player_pos)
    /\ [](player.pos = BatchPlayerPos)
    /\ [][call'.op = "update" =>
            probe'.player_pos = point2(XAfterKeys, player.pos.y - player.gravity)]_vars

C11_Witness ==
    /\ call.op = "update"
    /\ outcome.some
    /\ player.is_right_pressed
    /\ ~player.is_left_pressed
    /\ BatchPlayerPos = outcome.pos

\* r2 differs from r at most in the stored position of slot s and in the
\* four vertex positions at [4s, 4s + 4)
OnlySlotMoved(r, r2, s) ==
    /\ Len(r2.quads) = Len(r.quads)
    /\ Len(r2.vertices) = Len(r.vertices)
    /\ r2.indices = r.indices
    /\ r2.quad_size = r.quad_size
    /\ r2.current_quad_index = r.current_quad_index
    /\ \A i \in 1..Len(r.quads) :
         /\ r2.quads[i].color = r.quads[i].color
         /\ i # s + 1 => r2.quads[i] = r.quads[i]
    /\ \A j \in 1..Len(r.vertices) :
         /\ r2.vertices[j].color = r.vertices[j].color
         /\ (j <= 4 * s \/ j > 4 * s + 4) => r2.vertices[j] = r.vertices[j]

\* C12: update_quad_data(s, d) and change_quad_data(s, p) on a live slot s
\* change only the stored position of s and the four vertices at
\* [4s, 4s + 4); so a tick changes nothing but the player's slot, and the
\* block's stored position and four vertices stay as created.
C12_MovesTouchOneSlot ==
    /\ [](\A s \in ReturnedSlots :
            /\ \A d \in Deltas :
                 OnlySlotMoved(renderer, update_quad_data(renderer, s, d), s)
            /\ \A p \in StartPositions :
                 OnlySlotMoved(renderer, change_quad_data(renderer, s, p), s))
    /\ [][call'.op = "update" =>
            OnlySlotMoved(renderer, renderer', player.index)]_vars
    /\ [](/\ At(renderer.quads, block.index).pos = BLOCK_POS
          /\ block.pos = BLOCK_POS
          /\ VertexPositions(block.index) =
               Rectangle(BLOCK_POS, QUAD_SIZE * BLOCK_LENGTH.x,
                         QUAD_SIZE * BLOCK_LENGTH.y))

C12_Witness ==
    /\ call.op = "update"
    /\ outcome.some
    /\ player.is_right_pressed
    /\ VertexPositions(player.index) = Rectangle(player.pos, QUAD_SIZE, QUAD_SIZE)
    /\ VertexPositions(block.index)[4] = point2(500, 280)

\* the rectangles [p, p + cell] and [b, b + (w, h)] overlap in their interiors
StrictOverlap(p, cell, b, w, h) ==
    /\ p.x + cell > b.x
    /\ p.x < b.x + w
    /\ p.y + cell > b.y
    /\ p.y < b.y + h

\* C13: at the end of every tick, whatever the starting position and the
\* left/right inputs, the player's rectangle and the block's rectangle do
\* not overlap in their interiors; they share an edge at most.
C13_NoPenetrationAfterTick ==
    call.op = "update" =>
        ~StrictOverlap(player.pos, QUAD_SIZE, block.pos,
                       QUAD_SIZE * BLOCK_LENGTH.x, QUAD_SIZE * BLOCK_LENGTH.y)

C13_Witness ==
    /\ call.op = "update"
    /\ StrictOverlap(probe.player_pos, QUAD_SIZE, block.pos,
                     QUAD_SIZE * BLOCK_LENGTH.x, QUAD_SIZE * BLOCK_LENGTH.y)
    /\ player.pos = point2(probe.player_pos.x, BlockTop(probe))
    /\ player.is_right_pressed

====
